---- MODULE Spec2Model ----
(***************************************************************************)
(* A model of the scene_generation scripts:                                *)
(*   Sence.py        the scene controller (position sampler, spawn,        *)
(*                   force and delete service calls)                       *)
(*   add_inertial.py the inertia estimator and the description patcher    *)
(*   add_path.py     the mesh path rewriter                                *)
(* Each script is modelled by its own group of variables and its own       *)
(* specification; a specification holds the other groups still.            *)
(***************************************************************************)
EXTENDS Integers, Sequences, FiniteSets, TLC

VARIABLES
    \* ---- Sence.find_safe_positions
    objects,        \* the points already placed (argument)
    workspace,      \* <<<<xmin,xmax>>, <<ymin,ymax>>, <<zmin,zmax>>>> (argument)
    min_dist,       \* argument
    max_dist,       \* argument
    rand,           \* what random.uniform yields, one triple per loop iteration
    attempt,        \* iterations of the for loop started so far
    found,          \* the local `found`: <<>> or an accepted candidate
    spc,            \* "loop" | "done"
    \* ---- add_inertial.calculate_inertial_properties
    mesh,           \* what trimesh reports for the file at stl_path (argument)
    inertial,       \* the outcome of the call
    ipc,            \* "call" | "done"
    \* ---- add_inertial.add_inertial_to_urdf
    urdf,           \* the content of the file at urdf_path, as a sequence of tokens
    urdfBefore,     \* its content when the last call began
    urdfFirst,      \* its content when the first call returned
    exit,           \* the return the last call took
    calls,          \* calls of add_inertial_to_urdf on the file so far
    \* ---- add_path.update_urdf_mesh_paths_recursive
    urdfTree,           \* the .urdf files os.walk meets, in order, as they were
    walked,         \* how many of them the loop has handled
    outcome,        \* per handled file: what became of it and of its mesh elements
    processed_files,
    updated_meshes,
    \* ---- Sence: the scene controller and the simulator behind its services
    spawned_models, \* self.spawned_models
    object_names,   \* self.object_names
    object_postions,\* self.object_postions
    model_id,       \* self.model_id
    object_center,  \* self.object_center: the sums and the divisor
    sim,            \* the models present in the simulator
    scpc,           \* "idle" | "sample" | "spawn" | "force" | "delete" | "crashed"
    idx,            \* the index of the running loop
    gens,           \* calls of random_env_generation so far
    last,           \* the method that returned last
    spawnTried,     \* names spawn_model_prox was called for in the running call
    forceTried,     \* names apply_force_towards_target was called for
    deleteTried,    \* names delete_model_prox was called for
    deleteBatch     \* self.spawned_models when delete_all_objects began

samplerVars == <<objects, workspace, min_dist, max_dist, rand, attempt, found, spc>>
inertiaVars == <<mesh, inertial, ipc>>
patchVars == <<urdf, urdfBefore, urdfFirst, exit, calls>>
pathVars == <<urdfTree, walked, outcome, processed_files, updated_meshes>>
sceneVars == <<spawned_models, object_names, object_postions, model_id, object_center, sim,
               scpc, idx, gens, last, spawnTried, forceTried, deleteTried, deleteBatch>>

vars == <<samplerVars, inertiaVars, patchVars, pathVars, sceneVars>>

notSampler == <<inertiaVars, patchVars, pathVars, sceneVars>>
notInertia == <<samplerVars, patchVars, pathVars, sceneVars>>
notPatch == <<samplerVars, inertiaVars, pathVars, sceneVars>>
notPath == <<samplerVars, inertiaVars, patchVars, sceneVars>>
notScene == <<samplerVars, inertiaVars, patchVars, pathVars>>

\* A value for what a specification leaves unused.
Unused == "unused"

SamplerParked ==
    /\ objects = Unused /\ workspace = Unused /\ min_dist = Unused /\ max_dist = Unused
    /\ rand = Unused /\ attempt = Unused /\ found = Unused /\ spc = Unused

InertiaParked == mesh = Unused /\ inertial = Unused /\ ipc = Unused

PatchParked ==
    /\ urdf = Unused /\ urdfBefore = Unused /\ urdfFirst = Unused
    /\ exit = Unused /\ calls = Unused

PathParked ==
    /\ urdfTree = Unused /\ walked = Unused /\ outcome = Unused
    /\ processed_files = Unused /\ updated_meshes = Unused

SceneParked ==
    /\ spawned_models = Unused /\ object_names = Unused /\ object_postions = Unused
    /\ model_id = Unused /\ object_center = Unused /\ sim = Unused /\ scpc = Unused
    /\ idx = Unused /\ gens = Unused /\ last = Unused /\ spawnTried = Unused
    /\ forceTried = Unused /\ deleteTried = Unused /\ deleteBatch = Unused

(***************************************************************************)
(* Sence.find_safe_positions                                               *)
(*                                                                         *)
(* Lengths are integers on a grid twice as fine as the grid round(., 4)    *)
(* rounds to: a rounded coordinate is an even number, while workspace      *)
(* limits, the seed point (drawn without rounding) and the raw draws may   *)
(* be odd.                                                                 *)
(***************************************************************************)

\* The attempt budget (max_attempts, 10000 by default), capped.
MaxAttempts == 2

\* num_positions above the length of a point: the loop never breaks.
num_positions_large == 3 + 1

\* num_positions, left at its default by the only caller.
num_positions == 1

max_attempts == MaxAttempts

Fine == 2

\* round(x, 4): to the nearest multiple of Fine, a tie going to the even multiple.
Round(x) ==
    LET r == x % Fine
        lo == x - r
        hi == lo + Fine
    IN  IF r = 0 THEN x
        ELSE IF 2 * r < Fine THEN lo
        ELSE IF 2 * r > Fine THEN hi
        ELSE IF (lo \div Fine) % 2 = 0 THEN lo ELSE hi

Sq(x) == x * x

\* math.dist(p, q), squared.
Dist2(p, q) == Sq(p[1] - q[1]) + Sq(p[2] - q[2]) + Sq(p[3] - q[3])

\* t <= sqrt(d2)
ThresholdLeDist(t, d2) == t <= 0 \/ Sq(t) <= d2

\* sqrt(d2) <= t
DistLeThreshold(d2, t) == t >= 0 /\ d2 <= Sq(t)

\* min(math.dist(candidate, object) for object in objects), squared.
MinDist2(c, objs) ==
    LET ds == {Dist2(c, objs[i]) : i \in 1..Len(objs)}
    IN  CHOOSE d \in ds : \A e \in ds : d <= e

InBox(c, ws) ==
    \A a \in 1..3 : ws[a][1] <= c[a] /\ c[a] <= ws[a][2]

DistancesOk(c, objs, mn, mx) ==
    \A i \in 1..Len(objs) :
        ThresholdLeDist(mn, Dist2(c, objs[i])) /\ DistLeThreshold(MinDist2(c, objs), mx)

\* is_valid without its workspace test.
is_valid_nobox(c, objs, ws, mn, mx) == DistancesOk(c, objs, mn, mx)

\* is_valid answering after the first object of its loop.
is_valid_firstonly(c, objs, ws, mn, mx) ==
    /\ InBox(c, ws)
    /\ ThresholdLeDist(mn, Dist2(c, objs[1]))
    /\ DistLeThreshold(MinDist2(c, objs), mx)

\* is_valid without the test of the nearest object against max_dist.
is_valid_nonear(c, objs, ws, mn, mx) ==
    /\ InBox(c, ws)
    /\ \A i \in 1..Len(objs) : ThresholdLeDist(mn, Dist2(c, objs[i]))

is_valid(c, objs, ws, mn, mx) ==
    /\ InBox(c, ws)
    /\ DistancesOk(c, objs, mn, mx)

\* The candidate of one iteration: each raw draw rounded.
Candidate(u) == <<Round(u[1]), Round(u[2]), Round(u[3])>>

\* random.uniform(a, b) for a <= b: any grid value of [a, b].
Uniform(iv) == iv[1] .. iv[2]

XIntervals == {iv \in (0..3) \X (0..3) : iv[1] <= iv[2]}
YIntervals == {<<0, 0>>, <<1, 2>>}
ZIntervals == {<<0, 0>>, <<0, 1>>}
Workspaces == XIntervals \X YIntervals \X ZIntervals

ObjectLists ==
    { <<<<0, 0, 0>>>>,
      <<<<1, 0, 0>>, <<3, 2, 0>>>>,
      <<<<0, 2, 1>>, <<2, 0, 0>>, <<0, 0, 0>>>> }

Dists == 1..3

Draws(ws) == Uniform(ws[1]) \X Uniform(ws[2]) \X Uniform(ws[3])

SamplerInit ==
    /\ objects \in ObjectLists
    /\ workspace \in Workspaces
    /\ min_dist \in Dists
    /\ max_dist \in Dists
    /\ rand \in [1..max_attempts -> Draws(workspace)]
    /\ attempt = 0
    /\ found = <<>>
    /\ spc = "loop"

\* for _ in range(max_attempts): if len(found) >= num_positions: break
LoopBreak ==
    /\ spc = "loop"
    /\ attempt < max_attempts
    /\ Len(found) >= num_positions
    /\ spc' = "done"
    /\ UNCHANGED <<objects, workspace, min_dist, max_dist, rand, attempt, found>>
    /\ UNCHANGED notSampler

\* One iteration: draw, round, test, keep.
LoopIterate ==
    /\ spc = "loop"
    /\ attempt < max_attempts
    /\ Len(found) < num_positions
    /\ attempt' = attempt + 1
    /\ LET candidate == Candidate(rand[attempt + 1])
       IN  found' = IF is_valid(candidate, objects, workspace, min_dist, max_dist)
                    THEN candidate
                    ELSE found
    /\ UNCHANGED <<objects, workspace, min_dist, max_dist, rand, spc>>
    /\ UNCHANGED notSampler

\* range(max_attempts) is used up: return found
LoopExhausted ==
    /\ spc = "loop"
    /\ attempt = max_attempts
    /\ spc' = "done"
    /\ UNCHANGED <<objects, workspace, min_dist, max_dist, rand, attempt, found>>
    /\ UNCHANGED notSampler

SamplerNext == LoopBreak \/ LoopIterate \/ LoopExhausted

InitSampler == SamplerInit /\ InertiaParked /\ PatchParked /\ PathParked /\ SceneParked

SpecSampler == InitSampler /\ [][SamplerNext]_vars

\* The iterations of the budget whose candidate is_valid accepts.
ValidDraws ==
    {k \in 1..max_attempts :
        is_valid(Candidate(rand[k]), objects, workspace, min_dist, max_dist)}

FirstOf(S) == CHOOSE k \in S : \A j \in S : k <= j
LastOf(S) == CHOOSE k \in S : \A j \in S : j <= k

\* C1: a non-empty result is at distance >= min_dist from every point of
\* objects, and at distance <= max_dist from its nearest point of objects.
C1_AcceptedDistances ==
    found # <<>> =>
        /\ \A i \in 1..Len(objects) : ThresholdLeDist(min_dist, Dist2(found, objects[i]))
        /\ \E i \in 1..Len(objects) :
              /\ \A j \in 1..Len(objects) : Dist2(found, objects[i]) <= Dist2(found, objects[j])
              /\ DistLeThreshold(Dist2(found, objects[i]), max_dist)

C1_Witness ==
    /\ spc = "done"
    /\ found # <<>>
    /\ Len(objects) >= 2
    /\ Dist2(found, objects[1]) # Dist2(found, objects[2])

\* C2: a non-empty result lies inside the workspace box on every axis.
C2_ResultInWorkspace ==
    found # <<>> =>
        \A a \in 1..3 : workspace[a][1] <= found[a] /\ found[a] <= workspace[a][2]

\* A draw of the box was rounded out of it and refused, a later one returned.
C2_Witness ==
    /\ spc = "done"
    /\ found # <<>>
    /\ \E k \in 1..attempt :
          /\ \E a \in 1..3 : Candidate(rand[k])[a] > workspace[a][2]
          /\ DistancesOk(Candidate(rand[k]), objects, min_dist, max_dist)

\* C3: with max_dist < min_dist the sampler returns the empty result, and only
\* after all max_attempts iterations.
C3_UnsatisfiableReturnsEmpty ==
    max_dist < min_dist =>
        /\ found = <<>>
        /\ spc = "done" => attempt = max_attempts

\* The budget is used up on candidates of the box that are far enough from
\* every object.
C3_Witness ==
    /\ spc = "done"
    /\ max_dist < min_dist
    /\ attempt = max_attempts
    /\ \A k \in 1..max_attempts :
          is_valid_nonear(Candidate(rand[k]), objects, workspace, min_dist, max_dist)

\* C10 as stated: with more than one valid candidate among the draws of the
\* budget, the result is the last of them.
C10_ReturnsLastAccepted ==
    (spc = "done" /\ Cardinality(ValidDraws) > 1) =>
        found = Candidate(rand[LastOf(ValidDraws)])

\* C10 amended: the result is the first valid candidate of the draws, and the
\* loop stops drawing right after it; with no valid candidate the result is
\* empty and the budget is used up.
C10_ReturnsFirstAccepted ==
    spc = "done" =>
        IF ValidDraws = {}
        THEN found = <<>> /\ attempt = max_attempts
        ELSE found = Candidate(rand[FirstOf(ValidDraws)]) /\ attempt = FirstOf(ValidDraws)

\* Two different candidates of the budget are valid.
C10_Witness ==
    /\ spc = "done"
    /\ Cardinality(ValidDraws) > 1
    /\ Candidate(rand[FirstOf(ValidDraws)]) # Candidate(rand[LastOf(ValidDraws)])
    /\ found # <<>>

(***************************************************************************)
(* add_inertial.calculate_inertial_properties                              *)
(*                                                                         *)
(* Units: lengths in 1e-4 m, volumes in 1e-12 m^3, masses in 1e-9 kg.      *)
(* A tensor entry is a fraction <<n, d>>, d > 0, of 1e-10 kg m^2, the      *)
(* tolerance of the near-zero test.                                        *)
(***************************************************************************)

\* density = 1000.0 kg/m^3
density == 1000

\* mass = density * volume, in 1e-9 kg.
Mass(volume) == (density * volume) \div 1000

\* volume < 1e-10
VolumeTooSmall(volume) == volume < 100

\* dim < 1e-6
DimTooSmall(dim) == 100 * dim < 1

Abs(x) == IF x < 0 THEN -x ELSE x

\* |q| <= 1e-10: one entry of np.allclose(inertia_tensor, 0, atol=1e-10)
EntryNearZero(q) == Abs(q[1]) <= q[2]

\* q >= 1e-10
AtLeastFloor(q) == q[1] >= q[2]

Zero == <<0, 1>>

\* 0.1 kg m^2
DefaultMoment == <<1000000000, 1>>

\* np.diag([a, b, c])
Diag(a, b, c) == [xx |-> a, yy |-> b, zz |-> c, xy |-> Zero, xz |-> Zero, yz |-> Zero]

\* np.diag([0.1, 0.1, 0.1])
DefaultTensor == Diag(DefaultMoment, DefaultMoment, DefaultMoment)

\* np.allclose(inertia_tensor, 0, atol=1e-10)
AllClose(t) ==
    /\ EntryNearZero(t.xx) /\ EntryNearZero(t.yy) /\ EntryNearZero(t.zz)
    /\ EntryNearZero(t.xy) /\ EntryNearZero(t.xz) /\ EntryNearZero(t.yz)

\* (mass / 12) * (a**2 + b**2): 1e-9 kg * 1e-8 m^2 = 1e-17 kg m^2 per unit.
PrismMoment(mass, a, b) == <<mass * (Sq(a) + Sq(b)), 12 * 10000000>>

\* The tensor of a rectangular prism of the bounding box.
PrismTensor(mass, size) ==
    Diag(PrismMoment(mass, size[2], size[3]),
         PrismMoment(mass, size[1], size[3]),
         PrismMoment(mass, size[1], size[2]))

\* The steps of the try block that run for mesh m, in order.
StepsRun(m) ==
    <<"load">>
    \o (IF m.watertight THEN <<>> ELSE <<"fill_holes", "process">>)
    \o (IF m.watertight \/ m.repaired THEN <<>> ELSE <<"convex_hull">>)
    \o <<"volume">>
    \o (IF VolumeTooSmall(m.volume) THEN <<"bounds">> ELSE <<>>)
    \o <<"center_mass", "moment_inertia">>
    \o (IF AllClose(m.moment_inertia) THEN <<"bounds">> ELSE <<>>)

\* Whether a step of the try block raises.
Raises(m) == \E k \in 1..Len(StepsRun(m)) : StepsRun(m)[k] = m.failAt

\* Lines 48-92, when no step raises.
Computed(m) ==
    LET size == m.size
        volume == IF VolumeTooSmall(m.volume)
                  THEN size[1] * size[2] * size[3]
                  ELSE m.volume
        mass == Mass(volume)
        tensor == IF AllClose(m.moment_inertia)
                  THEN IF \E a \in 1..3 : DimTooSmall(size[a])
                       THEN DefaultTensor
                       ELSE PrismTensor(mass, size)
                  ELSE m.moment_inertia
    IN  [raised |-> FALSE, mass |-> mass, centroid |-> m.center_mass, tensor |-> tensor]

\* return 1.0, [0.0, 0.0, 0.0], np.diag([0.1, 0.1, 0.1])
SafeDefault ==
    [raised |-> FALSE, mass |-> 1000000000, centroid |-> <<0, 0, 0>>, tensor |-> DefaultTensor]

\* The exception leaving the function.
Propagated == [raised |-> TRUE, mass |-> 0, centroid |-> <<>>, tensor |-> <<>>]

\* calculate_inertial_properties with trimesh.load outside its try block.
calculate_inertial_properties_load_outside(m) ==
    IF m.failAt = "load" THEN Propagated
    ELSE IF Raises(m) THEN SafeDefault
    ELSE Computed(m)

calculate_inertial_properties(m) ==
    IF Raises(m) THEN SafeDefault ELSE Computed(m)

Steps == {"load", "fill_holes", "process", "convex_hull", "volume", "bounds",
          "center_mass", "moment_inertia"}

\* mesh.volume: inverted, empty, below and above 1e-10.
Volumes == {-1, 0, 1, 125000}
\* The extents of mesh.bounds: flat, 0.1 mm, 5 mm.
Dims == {0, 1, 50}
\* Entries of mesh.moment_inertia: zero, half the tolerance, three times it.
Moments == {Zero, <<1, 2>>, <<3, 1>>}
Products == {Zero, <<1, 4>>}

Meshes ==
    [ failAt : Steps \cup {"none"},
      watertight : BOOLEAN,
      repaired : BOOLEAN,
      volume : Volumes,
      size : Dims \X Dims \X Dims,
      center_mass : {<<0, 0, 0>>, <<1, 2, 3>>},
      moment_inertia : {[xx |-> t[1], yy |-> t[2], zz |-> t[3], xy |-> t[4], xz |-> t[4], yz |-> t[4]] :
                           t \in Moments \X Moments \X Moments \X Products} ]

\* A mesh lies in its bounding box, and a convex hull, where trimesh builds
\* one, is a solid.
Plausible(m) ==
    /\ Abs(m.volume) <= m.size[1] * m.size[2] * m.size[3]
    /\ (~m.watertight /\ ~m.repaired) => m.volume > 0

InertiaInit ==
    /\ mesh \in {m \in Meshes : Plausible(m)}
    /\ inertial = Unused
    /\ ipc = "call"

CalculateInertialProperties ==
    /\ ipc = "call"
    /\ inertial' = calculate_inertial_properties(mesh)
    /\ ipc' = "done"
    /\ UNCHANGED mesh
    /\ UNCHANGED notInertia

InertiaNext == CalculateInertialProperties

InitInertia == InertiaInit /\ SamplerParked /\ PatchParked /\ PathParked /\ SceneParked

SpecInertia == InitInertia /\ [][InertiaNext]_vars

\* C4 as stated: every returned mass is > 0 and every diagonal entry of the
\* returned tensor is at least the floor of 1e-10.
C4_MassPositiveDiagonalAboveFloor ==
    ipc = "done" =>
        /\ inertial.mass > 0
        /\ AtLeastFloor(inertial.tensor.xx)
        /\ AtLeastFloor(inertial.tensor.yy)
        /\ AtLeastFloor(inertial.tensor.zz)

\* C8: when a step of the try block raises, nothing is propagated and the
\* result is the fixed default: mass 1.0, zero centroid, diag(0.1, 0.1, 0.1).
C8_FailureGivesSafeDefault ==
    (ipc = "done" /\ Raises(mesh)) =>
        /\ ~inertial.raised
        /\ inertial.mass = 1000000000
        /\ inertial.centroid = <<0, 0, 0>>
        /\ inertial.tensor.xx = DefaultMoment
        /\ inertial.tensor.yy = DefaultMoment
        /\ inertial.tensor.zz = DefaultMoment
        /\ inertial.tensor.xy = Zero /\ inertial.tensor.xz = Zero /\ inertial.tensor.yz = Zero

\* Loading the mesh fails.
C8_Witness ==
    /\ ipc = "done"
    /\ mesh.failAt = "load"
    /\ ~inertial.raised

(***************************************************************************)
(* add_inertial.fix_xml_format and add_inertial.add_inertial_to_urdf       *)
(*                                                                         *)
(* A description file is a sequence of tokens:                             *)
(*   "decl"      <?xml version="1.0"?>, the text fix_xml_format looks for  *)
(*   "decl_enc"  an XML declaration written otherwise (with an encoding)   *)
(*   "nl"        a line break                                              *)
(*   "junk"      text that is not white space                              *)
(*   "robot", "/robot", "link", "/link"   start and end tags               *)
(*   "collision" a collision element, ending in </collision>               *)
(*   "inertial"  an inertial element the file came with                    *)
(*   "inertial_block"  the element add_inertial_to_urdf formats: mass,     *)
(*               origin and the six inertia terms                          *)
(***************************************************************************)

\* Files patched in a row at most this many times.
MaxCalls == 2
\* Link elements of a generated file.
MaxLinks == 2

\* content.find(tok): the 0-based place of the first tok, or -1.
Find(content, tok) ==
    IF \E i \in 1..Len(content) : content[i] = tok
    THEN (CHOOSE i \in 1..Len(content) :
              content[i] = tok /\ \A j \in 1..(i - 1) : content[j] # tok) - 1
    ELSE -1

\* content[pos:]
From(content, pos) == SubSeq(content, pos + 1, Len(content))
\* content[:pos]
Upto(content, pos) == SubSeq(content, 1, pos)

\* fix_xml_format doing what its comment says: dropping what precedes the
\* declaration.
fix_xml_format_drop(content) ==
    LET declaration_pos == Find(content, "decl")
    IN  IF declaration_pos > 0 THEN From(content, declaration_pos) ELSE content

\* The content fix_xml_format leaves in the file.
fix_xml_format(content) ==
    LET declaration_pos == Find(content, "decl")
    IN  IF declaration_pos > 0
        THEN From(content, declaration_pos) \o Upto(content, declaration_pos)
        ELSE content

IsInertial(tok) == tok \in {"inertial", "inertial_block"}
IsElement(tok) == tok = "collision" \/ IsInertial(tok)
IsStart(tok) == tok \in {"robot", "link"}
IsEnd(tok) == tok \in {"/robot", "/link"}
EndOf(tok) == IF tok = "robot" THEN "/robot" ELSE "/link"

\* ET.parse over the tokens from place i on. open: the start tags not yet
\* ended; st.rootDone: the root element has ended; st.link: the first link
\* child of the root is "none" yet, "open" or "closed"; st.inertial: that link
\* has an inertial child. The result has ok = FALSE for an xml.etree ParseError.
RECURSIVE Parse(_, _, _, _)
Parse(content, i, open, st) ==
    IF i > Len(content)
    THEN [ok |-> open = <<>> /\ st.rootDone, link |-> st.link # "none", inertial |-> st.inertial]
    ELSE
    LET tok == content[i]
        bad == [ok |-> FALSE, link |-> FALSE, inertial |-> FALSE]
    IN  IF tok \in {"decl", "decl_enc"}
        THEN IF i = 1 THEN Parse(content, i + 1, open, st) ELSE bad
        ELSE IF tok = "nl"
        THEN Parse(content, i + 1, open, st)
        ELSE IF tok = "junk"
        THEN IF open = <<>> THEN bad ELSE Parse(content, i + 1, open, st)
        ELSE IF IsStart(tok)
        THEN IF open = <<>> /\ st.rootDone THEN bad
             ELSE Parse(content, i + 1, Append(open, tok),
                        IF tok = "link" /\ Len(open) = 1 /\ st.link = "none"
                        THEN [st EXCEPT !.link = "open"] ELSE st)
        ELSE IF IsEnd(tok)
        THEN IF open = <<>> \/ EndOf(open[Len(open)]) # tok THEN bad
             ELSE Parse(content, i + 1, Upto(open, Len(open) - 1),
                        [st EXCEPT !.rootDone = (Len(open) = 1),
                                   !.link = IF tok = "/link" /\ Len(open) = 2 /\ st.link = "open"
                                            THEN "closed" ELSE st.link])
        ELSE \* an element token
             IF open = <<>>
             THEN IF st.rootDone THEN bad
                  ELSE Parse(content, i + 1, open, [st EXCEPT !.rootDone = TRUE])
             ELSE Parse(content, i + 1, open,
                        IF IsInertial(tok) /\ Len(open) = 2 /\ open[2] = "link" /\ st.link = "open"
                        THEN [st EXCEPT !.inertial = TRUE] ELSE st)

\* tree = ET.parse(urdf_path)
ETParse(content) ==
    Parse(content, 1, <<>>, [rootDone |-> FALSE, link |-> "none", inertial |-> FALSE])

\* formatted_inertial: a line break, then the element.
formatted_inertial == <<"nl", "inertial_block">>

\* Lines 138-161: new_content, given that </collision> occurs.
NewContent(original_content) ==
    LET insertion_pos == Find(original_content, "collision") + 1
        after_collision == From(original_content, insertion_pos)
    IN  IF after_collision # <<>> /\ after_collision[1] = "nl"
        THEN Upto(original_content, insertion_pos) \o formatted_inertial
             \o From(original_content, insertion_pos)
        ELSE Upto(original_content, insertion_pos) \o <<"nl">> \o formatted_inertial
             \o From(original_content, insertion_pos)

\* add_inertial_to_urdf on a file of the given content: the content it leaves
\* and the return it takes.
add_inertial_to_urdf(content) ==
    LET original_content == fix_xml_format(content)
        tree == ETParse(original_content)
    IN  IF ~tree.ok THEN [file |-> original_content, exit |-> "parse_error"]
        ELSE IF ~tree.link THEN [file |-> original_content, exit |-> "no_link"]
        ELSE IF tree.inertial THEN [file |-> original_content, exit |-> "has_inertial"]
        ELSE IF Find(original_content, "collision") = -1
        THEN [file |-> original_content, exit |-> "no_collision"]
        ELSE [file |-> NewContent(original_content), exit |-> "written"]

Prefixes == {<<>>, <<"nl">>, <<"junk">>}
Declarations == {<<>>, <<"decl">>, <<"decl_enc">>}
LinkContents ==
    {<<>>, <<"collision">>, <<"collision", "nl">>, <<"inertial">>,
     <<"collision", "nl", "inertial">>}
LinkElements == {<<"link">> \o c \o <<"/link">> : c \in LinkContents}

RECURSIVE LinkLists(_)
LinkLists(n) ==
    IF n = 0 THEN {<<>>}
    ELSE LinkLists(n - 1) \cup
         {l \o rest : l \in LinkElements, rest \in {r \in LinkLists(n - 1) : TRUE}}

\* A robot element of up to MaxLinks links, or one whose end tag is missing.
Documents ==
    {<<"robot">> \o ls \o close : ls \in LinkLists(MaxLinks), close \in {<<"/robot">>, <<>>}}

UrdfFiles == {p \o d \o doc : p \in Prefixes, d \in Declarations, doc \in Documents}

PatchInit ==
    /\ urdf \in UrdfFiles
    /\ urdfBefore = urdf
    /\ urdfFirst = <<>>
    /\ exit = "none"
    /\ calls = 0

AddInertialToUrdf ==
    /\ calls < MaxCalls
    /\ LET r == add_inertial_to_urdf(urdf)
       IN  /\ urdf' = r.file
           /\ exit' = r.exit
           /\ urdfFirst' = IF calls = 0 THEN r.file ELSE urdfFirst
    /\ urdfBefore' = urdf
    /\ calls' = calls + 1
    /\ UNCHANGED notPatch

PatchNext == AddInertialToUrdf

InitPatch == PatchInit /\ SamplerParked /\ InertiaParked /\ PathParked /\ SceneParked

SpecPatch == InitPatch /\ [][PatchNext]_vars

Count(content, tok) == Cardinality({i \in 1..Len(content) : content[i] = tok})

\* C5 as stated: after two calls in a row the file is what the first call left.
C5_SecondRunIsNoOp ==
    calls >= 2 => urdf = urdfFirst

Rotated(content) ==
    IF \E k \in 1..(Len(content) - 1) : content[k + 1] = "decl"
    THEN LET k == CHOOSE k \in 0..(Len(content) - 1) :
                      content[k + 1] = "decl" /\ \A j \in 1..k : content[j] # "decl"
         IN  SubSeq(content, k + 1, Len(content)) \o SubSeq(content, 1, k)
    ELSE content

MaxMeshes == 2

\* ros_workspace_src_path, absolute.
ros_src_path == <<"ws", "src">>

IsPrefix(a, b) == Len(a) <= Len(b) /\ SubSeq(b, 1, Len(a)) = a

\* ros_src_path in urdf_dir_path.parents
InParents(root, dir) == IsPrefix(root, dir) /\ Len(root) < Len(dir)

\* urdf_dir_path.relative_to(ros_src_path)
RelativeTo(dir, root) == SubSeq(dir, Len(root) + 1, Len(dir))

\* str(path): the names joined by "/".
RECURSIVE Str(_)
Str(names) ==
    IF names = <<>> THEN <<>>
    ELSE IF Len(names) = 1 THEN <<names[1]>>
    ELSE <<names[1], "/">> \o Str(Tail(names))

\* s.replace('\\', '/')
RECURSIVE ReplaceBackslash(_)
ReplaceBackslash(s) ==
    IF s = <<>> THEN <<>>
    ELSE <<IF Head(s) = "\\" THEN "/" ELSE Head(s)>> \o ReplaceBackslash(Tail(s))

\* The package path made of the directory's own name only.
PackageRelativePath_name_only(dir, root) == <<dir[Len(dir)]>>

\* package_relative_path
PackageRelativePath(dir, root) == ReplaceBackslash(Str(RelativeTo(dir, root)))

\* os.path.basename(s): what follows the last "/".
RECURSIVE Basename(_)
Basename(s) ==
    IF \E i \in 1..Len(s) : s[i] = "/"
    THEN Basename(Tail(s))
    ELSE s

\* current_filename and current_filename.endswith('.stl')
IsStlReference(m) ==
    m.has /\ m.filename # <<>> /\ m.filename[Len(m.filename)] = ".stl"

\* Lines 86-99 for one mesh element.
UpdateMesh(m, package_relative_path) ==
    IF IsStlReference(m)
    THEN [has |-> TRUE,
          filename |-> <<"package://">> \o package_relative_path \o <<"/">> \o Basename(m.filename)]
    ELSE m

\* Lines 44-116 for one file: its outcome.
UpdateFile(f) ==
    IF ~InParents(ros_src_path, f.dir)
    THEN [status |-> "outside", meshes |-> f.meshes]
    ELSE IF f.xml = "bad"
    THEN [status |-> "parse_error", meshes |-> f.meshes]
    ELSE [status |-> "written",
          meshes |-> [k \in 1..Len(f.meshes) |->
                         UpdateMesh(f.meshes[k], PackageRelativePath(f.dir, ros_src_path))]]

UpdatedCount(f) == Cardinality({k \in 1..Len(f.meshes) : IsStlReference(f.meshes[k])})

\* The directories os.walk may meet: below the source root, the root itself,
\* and one outside it.
Directories ==
    {ros_src_path \o <<"bar">>, ros_src_path \o <<"bar", "sub">>, ros_src_path, <<"ws", "other">>}

Filenames ==
    { <<"some", "/", "local", "/", "path", "/", "foo", ".stl">>,
      <<"foo", ".STL">>,
      <<"win", "\\", "foo", ".stl">>,
      <<"package://", "bar", "/", "foo", ".stl">> }

MeshElements ==
    {[has |-> TRUE, filename |-> n] : n \in Filenames} \cup {[has |-> FALSE, filename |-> <<>>]}

RECURSIVE MeshLists(_)
MeshLists(n) ==
    IF n = 0 THEN {<<>>}
    ELSE {<<>>} \cup {<<m>> \o rest : m \in MeshElements, rest \in MeshLists(n - 1)}

UrdfFilesOfWalk(n) ==
    [dir : Directories, xml : {"ok", "bad"}, meshes : MeshLists(n)]

\* One or two files holding up to MaxMeshes mesh elements together.
Walks ==
    {<<f>> : f \in UrdfFilesOfWalk(MaxMeshes)} \cup
    UNION {{<<f, g>> : g \in UrdfFilesOfWalk(MaxMeshes - Len(f.meshes))} :
              f \in UrdfFilesOfWalk(MaxMeshes)}

PathInit ==
    /\ urdfTree \in Walks
    /\ walked = 0
    /\ outcome = <<>>
    /\ processed_files = 0
    /\ updated_meshes = 0

\* One .urdf file of the walk.
UpdateNextFile ==
    /\ walked < Len(urdfTree)
    /\ LET f == urdfTree[walked + 1]
           r == UpdateFile(f)
       IN  /\ outcome' = Append(outcome, r)
           /\ processed_files' = processed_files + (IF r.status = "written" THEN 1 ELSE 0)
           /\ updated_meshes' = updated_meshes + (IF r.status = "written" THEN UpdatedCount(f) ELSE 0)
    /\ walked' = walked + 1
    /\ UNCHANGED urdfTree
    /\ UNCHANGED notPath

PathNext == UpdateNextFile

InitPath == PathInit /\ SamplerParked /\ InertiaParked /\ PatchParked /\ SceneParked

SpecPath == InitPath /\ [][PathNext]_vars

\* A well-formed description file in a directory below the source root.
InScope(f) ==
    /\ f.xml = "ok"
    /\ Len(f.dir) > Len(ros_src_path)
    /\ \A i \in 1..Len(ros_src_path) : f.dir[i] = ros_src_path[i]

\* The names of dir below the source root, each followed by "/".
RECURSIVE DirPrefix(_, _)
DirPrefix(dir, i) ==
    IF i > Len(dir) THEN <<>> ELSE <<dir[i], "/">> \o DirPrefix(dir, i + 1)

\* The tokens of s after its last "/".
AfterLastSlash(s) ==
    LET slashes == {i \in 1..Len(s) : s[i] = "/"}
        lastSlash == IF slashes = {} THEN 0 ELSE CHOOSE i \in slashes : \A j \in slashes : j <= i
    IN  SubSeq(s, lastSlash + 1, Len(s))

\* C6: once a file in a directory below the source root is handled, each of
\* its mesh elements that referenced an .stl file has as filename "package://",
\* the directory relative to the source root, "/", and the base name of the
\* reference.
C6_PackageRelativePaths ==
    \A n \in 1..walked :
        InScope(urdfTree[n]) =>
            \A k \in 1..Len(urdfTree[n].meshes) :
                LET was == urdfTree[n].meshes[k]
                    now == outcome[n].meshes[k]
                IN  (was.has /\ was.filename # <<>> /\ was.filename[Len(was.filename)] = ".stl") =>
                        /\ now.has
                        /\ now.filename = <<"package://">>
                                          \o DirPrefix(urdfTree[n].dir, Len(ros_src_path) + 1)
                                          \o AfterLastSlash(was.filename)

\* After a file that was skipped, some/local/path/foo.stl in <root>/bar/sub
\* has become package://bar/sub/foo.stl.
C6_Witness ==
    /\ walked = 2
    /\ outcome[1].status # "written"
    /\ urdfTree[2].dir = ros_src_path \o <<"bar", "sub">>
    /\ urdfTree[2].meshes # <<>>
    /\ urdfTree[2].meshes[1].filename = <<"some", "/", "local", "/", "path", "/", "foo", ".stl">>
    /\ outcome[2].meshes[1].filename = <<"package://", "bar", "/", "sub", "/", "foo", ".stl">>

(***************************************************************************)
(* Sence: spawn_object, apply_force_towards_target, delete_all_objects and *)
(* random_env_generation, one step per service call.                       *)
(*                                                                         *)
(* A model is named by its object_id: 0 is "target_object", n is           *)
(* "object_n". A service call ends "ok", "rejected" (the response says     *)
(* success = False) or "exception" (rospy.ServiceException).               *)
(***************************************************************************)

\* self.num_obstacles (5), capped.
NumObstacles == 2
\* Calls of random_env_generation on one Sence object.
MaxGens == 2

num_obstacles == NumObstacles

\* What find_safe_positions may return to random_env_generation.
Points == {<<0, 0, 0>>, <<2, 0, 0>>}

\* The drop position of the target object, lines 173-175.
DropPoints == {<<1, 0, 0>>}

\* How a spawn call for name can end: the simulator refuses a name it holds.
SpawnOutcomes(name) ==
    (IF name \in sim THEN {} ELSE {"ok"}) \cup {"rejected", "exception"}

\* How a delete call for name can end: only a model it holds is deleted.
DeleteOutcomes(name) ==
    (IF name \in sim THEN {"ok"} ELSE {}) \cup {"rejected", "exception"}

ForceOutcomes == {"ok", "rejected", "exception"}

\* spawn_object: the registry after the call.
spawn_object(registry, model_name, result) ==
    IF result = "ok" THEN Append(registry, model_name) ELSE registry

\* select_random_mesh_models with m descriptor files in the mesh directory:
\* all of them when fewer than num_obstacles + 1, else that many.
select_random_mesh_models(m) ==
    LET num_models == num_obstacles + 1
    IN  IF m < num_models THEN [i \in 1..m |-> i] ELSE [i \in 1..num_models |-> i]

RECURSIVE SumAxis(_, _)
SumAxis(positions, a) ==
    IF positions = <<>> THEN 0 ELSE Head(positions)[a] + SumAxis(Tail(positions), a)

SceneInit ==
    /\ spawned_models = <<>>
    /\ object_names = <<>>
    /\ object_postions = <<>>
    /\ model_id = <<>>
    /\ object_center = <<>>
    /\ sim = {}
    /\ scpc = "idle"
    /\ idx = 0
    /\ gens = 0
    /\ last = "init"
    /\ spawnTried = <<>>
    /\ forceTried = <<>>
    /\ deleteTried = <<>>
    /\ deleteBatch = <<>>

\* random_env_generation, lines 172-178.
GenerateBegin ==
    /\ scpc = "idle"
    /\ gens < MaxGens
    /\ gens' = gens + 1
    /\ object_names' = <<>>
    /\ \E drop \in DropPoints : object_postions' = Append(object_postions, drop)
    /\ \E m \in 0..(num_obstacles + 2) : model_id' = select_random_mesh_models(m)
    /\ scpc' = IF num_obstacles > 0 THEN "sample" ELSE "spawn"
    /\ idx' = 0
    /\ spawnTried' = <<>>
    /\ forceTried' = <<>>
    /\ UNCHANGED <<spawned_models, object_center, sim, last, deleteTried, deleteBatch>>
    /\ UNCHANGED notScene

\* Lines 179-183: find_safe_positions returned a point.
SampleFound ==
    /\ scpc = "sample"
    /\ idx < num_obstacles
    /\ \E temp_pos \in Points : object_postions' = Append(object_postions, temp_pos)
    /\ scpc' = IF idx + 1 < num_obstacles THEN "sample" ELSE "spawn"
    /\ idx' = IF idx + 1 < num_obstacles THEN idx + 1 ELSE 0
    /\ UNCHANGED <<spawned_models, object_names, model_id, object_center, sim, gens, last,
                   spawnTried, forceTried, deleteTried, deleteBatch>>
    /\ UNCHANGED notScene

\* Lines 184-186: find_safe_positions returned nothing; break.
SampleFailed ==
    /\ scpc = "sample"
    /\ idx < num_obstacles
    /\ scpc' = "spawn"
    /\ idx' = 0
    /\ UNCHANGED <<spawned_models, object_names, object_postions, model_id, object_center, sim,
                   gens, last, spawnTried, forceTried, deleteTried, deleteBatch>>
    /\ UNCHANGED notScene

\* Line 192: model_id[object_id] with no such element; the IndexError leaves
\* random_env_generation.
SpawnIndexError ==
    /\ scpc = "spawn"
    /\ idx < Len(object_postions)
    /\ idx >= Len(model_id)
    /\ scpc' = "crashed"
    /\ last' = "random_env_generation"
    /\ UNCHANGED <<spawned_models, object_names, object_postions, model_id, object_center, sim,
                   idx, gens, spawnTried, forceTried, deleteTried, deleteBatch>>
    /\ UNCHANGED notScene

\* Lines 187-196: one spawn_object call.
SpawnStep ==
    /\ scpc = "spawn"
    /\ idx < Len(object_postions)
    /\ idx < Len(model_id)
    /\ \E result \in SpawnOutcomes(idx) :
          /\ spawned_models' = spawn_object(spawned_models, idx, result)
          /\ sim' = IF result = "ok" THEN sim \cup {idx} ELSE sim
    /\ spawnTried' = Append(spawnTried, idx)
    /\ object_names' = Append(object_names, idx)
    /\ idx' = idx + 1
    /\ UNCHANGED <<object_postions, model_id, object_center, scpc, gens, last,
                   forceTried, deleteTried, deleteBatch>>
    /\ UNCHANGED notScene

\* Lines 198-203: the spawn loop is over; object_center.
SpawnDone ==
    /\ scpc = "spawn"
    /\ idx = Len(object_postions)
    /\ object_center' = [sum |-> <<SumAxis(object_postions, 1), SumAxis(object_postions, 2),
                                   SumAxis(object_postions, 3)>>,
                         den |-> num_obstacles + 1]
    /\ scpc' = "force"
    /\ idx' = 0
    /\ UNCHANGED <<spawned_models, object_names, object_postions, model_id, sim, gens, last,
                   spawnTried, forceTried, deleteTried, deleteBatch>>
    /\ UNCHANGED notScene

\* Lines 204-205: one apply_force_towards_target call; it catches the
\* ServiceException of its service calls.
ForceStep ==
    /\ scpc = "force"
    /\ idx < Len(object_names)
    /\ \E result \in ForceOutcomes : forceTried' = Append(forceTried, object_names[idx + 1])
    /\ idx' = idx + 1
    /\ UNCHANGED <<spawned_models, object_names, object_postions, model_id, object_center, sim,
                   scpc, gens, last, spawnTried, deleteTried, deleteBatch>>
    /\ UNCHANGED notScene

\* Line 206: random_env_generation returns.
ForceDone ==
    /\ scpc = "force"
    /\ idx = Len(object_names)
    /\ scpc' = "idle"
    /\ idx' = 0
    /\ last' = "random_env_generation"
    /\ UNCHANGED <<spawned_models, object_names, object_postions, model_id, object_center, sim,
                   gens, spawnTried, forceTried, deleteTried, deleteBatch>>
    /\ UNCHANGED notScene

\* delete_all_objects is called.
DeleteBegin ==
    /\ scpc = "idle"
    /\ last # "delete_all_objects"
    /\ scpc' = "delete"
    /\ idx' = 0
    /\ deleteTried' = <<>>
    /\ deleteBatch' = spawned_models
    /\ UNCHANGED <<spawned_models, object_names, object_postions, model_id, object_center, sim,
                   gens, last, spawnTried, forceTried>>
    /\ UNCHANGED notScene

\* Lines 111-116: delete_model_prox answers for one model.
DeleteStep ==
    /\ scpc = "delete"
    /\ idx < Len(spawned_models)
    /\ \E result \in DeleteOutcomes(spawned_models[idx + 1]) \ {"exception"} :
          sim' = IF result = "ok" THEN sim \ {spawned_models[idx + 1]} ELSE sim
    /\ deleteTried' = Append(deleteTried, spawned_models[idx + 1])
    /\ idx' = idx + 1
    /\ UNCHANGED <<spawned_models, object_names, object_postions, model_id, object_center,
                   scpc, gens, last, spawnTried, forceTried, deleteBatch>>
    /\ UNCHANGED notScene

\* Lines 112, 118-119: delete_model_prox raises; the except clause is outside
\* the loop, and the method returns.
DeleteException ==
    /\ scpc = "delete"
    /\ idx < Len(spawned_models)
    /\ "exception" \in DeleteOutcomes(spawned_models[idx + 1])
    /\ deleteTried' = Append(deleteTried, spawned_models[idx + 1])
    /\ scpc' = "idle"
    /\ idx' = 0
    /\ last' = "delete_all_objects"
    /\ UNCHANGED <<spawned_models, object_names, object_postions, model_id, object_center, sim,
                   gens, spawnTried, forceTried, deleteBatch>>
    /\ UNCHANGED notScene

\* Line 117: the loop is over; the registry is cleared.
DeleteDone ==
    /\ scpc = "delete"
    /\ idx = Len(spawned_models)
    /\ spawned_models' = <<>>
    /\ scpc' = "idle"
    /\ idx' = 0
    /\ last' = "delete_all_objects"
    /\ UNCHANGED <<object_names, object_postions, model_id, object_center, sim,
                   gens, spawnTried, forceTried, deleteTried, deleteBatch>>
    /\ UNCHANGED notScene

SceneNext ==
    \/ GenerateBegin \/ SampleFound \/ SampleFailed
    \/ SpawnIndexError \/ SpawnStep \/ SpawnDone
    \/ ForceStep \/ ForceDone
    \/ DeleteBegin \/ DeleteStep \/ DeleteException \/ DeleteDone

InitScene == SceneInit /\ SamplerParked /\ InertiaParked /\ PatchParked /\ PathParked

SpecScene == InitScene /\ [][SceneNext]_vars

\* C9 as stated: a failed service call skips only its own operation. When
\* delete_all_objects has returned, delete_model_prox was called for every
\* model of the registry; when random_env_generation has gone through its
\* loops, spawn and force were called for every placed object.
C9_BatchContinues ==
    /\ (scpc = "idle" /\ last = "delete_all_objects") => deleteTried = deleteBatch
    /\ (scpc = "idle" /\ last = "random_env_generation") =>
          /\ Len(spawnTried) = Len(object_postions)
          /\ forceTried = spawnTried

\* The names held by the registry.
Registered == {spawned_models[i] : i \in 1..Len(spawned_models)}

\* C11 as stated: between the service calls of spawn_object and once
\* delete_all_objects has returned, spawned_models lists exactly the models
\* that were spawned successfully and not yet deleted successfully, which are
\* the models the simulator holds.
C11_RegistryConsistent ==
    scpc # "delete" => Registered = sim

\* C12 as stated: at the spawn loop of random_env_generation every placed
\* position has a selected model descriptor, and there are at most
\* num_obstacles + 1 positions, so model_id[object_id] is a valid index.
C12_DescriptorForEachPosition ==
    scpc = "spawn" =>
        /\ Len(object_postions) <= Len(model_id)
        /\ Len(object_postions) <= num_obstacles + 1

\* C13 as stated: while the objects are pushed, each coordinate of
\* object_center is the sum of that coordinate over object_postions divided by
\* the number of positions placed.
C13_CenterIsMean ==
    scpc = "force" =>
        \A a \in 1..3 :
            object_center.sum[a] * Len(object_postions) =
                SumAxis(object_postions, a) * object_center.den

====
